---------------------------- MODULE Spec2Model ----------------------------
(***************************************************************************)
(* A model of the Cookie Clicker forwarding proxy (xD8998/ccproxy).        *)
(*                                                                         *)
(* The repository holds four variants of the server: src/index.js          *)
(* (mirror-first, lines 36-273), src/unnamed/part_000 (HTML-only           *)
(* rewriting), src/unnamed/part_001 (rewriteHtml + /fetch) and             *)
(* src/unnamed/part_002 (the "patched" server with                         *)
(* isCloudflareChallengeStatus).  The variable `file` says which of them   *)
(* is deployed; every handler is translated from its own file.             *)
(*                                                                         *)
(* A body is a sequence of tokens.  A token is a string that stands for    *)
(* the run of bytes it spells; a compressed body is its plain body behind  *)
(* a framing token of the algorithm.  ByteLength adds the tokens' widths.  *)
(***************************************************************************)
EXTENDS Integers, Sequences, FiniteSets, TLC

\* ------------------------------------------------------------------ bounds

\* The longest decoded upstream body, in tokens.
MaxBody == 2

\* --------------------------------------------------------------- constants

PROXY_PREFIX == "/cookieclicker"

ORIGIN_REF == "https://orteil.dashnet.org/cookieclicker"

\* A Cloudflare interstitial's phrase, in the letter case the page uses.
CF_PHRASE == "Checking your browser before accessing"

\* The tokens an upstream body is drawn from.
BodyTokens == {"x", ORIGIN_REF, CF_PHRASE}

\* The content-encoding values an upstream sends ("" is: no header).
EncodingValues == {"", "gzip", "deflate", "br", "GZIP", "identity", "zstd"}

ContentTypes == {"text/html; charset=utf-8", "application/javascript", "image/png"}

StatusCodes == {200, 429, 503}

\* Upstream headers that may or may not be present (an origin that sends
\* x-frame-options sends x-xss-protection with it).
OptionalHeaders == {"content-security-policy", "x-frame-options", "set-cookie", "location"}

\* The location an origin response names.
ORIGIN_LOCATION == "https://orteil.dashnet.org/cookieclicker/"

\* The unexpected failures the environment can inject into one response:
\* none, the upstream stream erroring before its end, an exception thrown by
\* Buffer.toString (a body too long for a string), an exception thrown by
\* the first res.setHeader call.  fault records the one that happened.
Faults == {"none", "stream", "toString", "setHeader"}

Files == {"index.js", "part_000", "part_001", "part_002"}

\* ------------------------------------------------------------ sequences

RECURSIVE SeqsUpTo(_, _)
SeqsUpTo(S, n) ==
  IF n = 0 THEN {<<>>}
  ELSE LET shorter == SeqsUpTo(S, n - 1)
       IN  shorter \cup {Append(s, t) : s \in {q \in shorter : Len(q) = n - 1}, t \in S}

RECURSIVE ByteLength(_)
\* Buffer.length: the number of bytes of a body.
ByteLength(buf) ==
  IF buf = <<>> THEN 0 ELSE Len(Head(buf)) + ByteLength(Tail(buf))

\* String.prototype.toLowerCase on the strings of the model.
toLowerCase(s) ==
  CASE s = "GZIP" -> "gzip"
    [] s = CF_PHRASE -> "checking your browser before accessing"
    [] OTHER -> s

\* String.prototype.includes(sub) on the strings of the model.
Includes(s, sub) ==
  \/ s = sub
  \/ <<s, sub>> \in
       { <<"text/html; charset=utf-8", "text/html">>,
         <<"application/javascript", "javascript">>,
         <<"text/css", "css">>,
         <<"image/png", "image">>,
         <<"public, max-age=86400", "max-age">>,
         <<"https://orteil.dashnet.org/cookieclicker", "orteil.dashnet.org">>,
         <<"http://orteil.dashnet.org/cookieclicker", "orteil.dashnet.org">>,
         <<"https://orteil.dashnet.org", "orteil.dashnet.org">>,
         <<"//orteil.dashnet.org/cookieclicker", "orteil.dashnet.org">> }

\* Whether some token of the text contains sub (the needles of the model
\* never span two tokens).
TextIncludes(text, sub) == \E i \in DOMAIN text : Includes(text[i], sub)

\* --------------------------------------------------------------- headers

\* res.setHeader(k, v) on a header map.
SetHeader(h, k, v) == [x \in DOMAIN h \cup {k} |-> IF x = k THEN v ELSE h[x]]

\* Object.entries(headers).forEach(setHeader) skipping the names in skip.
CopyHeaders(into, h, skip) ==
  [x \in DOMAIN into \cup (DOMAIN h \ skip) |-> IF x \in DOMAIN h \ skip THEN h[x] ELSE into[x]]

\* delete headers[k] for every k in names.
DeleteHeaders(h, names) == [x \in DOMAIN h \ names |-> h[x]]

\* headers[k] || "".
HeaderOrEmpty(h, k) == IF k \in DOMAIN h THEN h[k] ELSE ""

NoHeaders == [x \in {} |-> ""]

\* ----------------------------------------------------------------- zlib

Compressions == {"gzip", "deflate", "br"}

\* The framing a compressed stream starts with.
Frame(alg) ==
  CASE alg = "gzip" -> "<gzip>"
    [] alg = "deflate" -> "<zlib>"
    [] alg = "br" -> "<br>"

\* zlib.gzipSync / deflateSync / brotliCompressSync.
Compress(alg, buf) == <<Frame(alg)>> \o buf

\* Whether zlib.gunzipSync / inflateSync / brotliDecompressSync accept buf.
CanDecompress(alg, buf) == buf # <<>> /\ Head(buf) = Frame(alg)

\* zlib.gunzipSync / inflateSync / brotliDecompressSync on an accepted buf.
Decompress(alg, buf) == Tail(buf)

\* Bytes that are no compressed stream of any algorithm and no UTF-8 text:
\* what a corrupt compressed body starts with.
JUNK == "<junk>"

\* The bytes of a body compressed with an algorithm the server has no
\* decompression for (zstd); nothing of the content shows in them.
ZSTD_STREAM == "<zstd stream>"

\* U+FFFD, which Buffer.toString("utf8") puts for bytes that are not UTF-8.
REPLACEMENT == "<?>"

\* Buffer.toString("utf8"): text tokens decode to themselves, framing,
\* compressed and junk bytes to the replacement character.
toString(buf) ==
  [i \in DOMAIN buf |->
     IF buf[i] \in {Frame(a) : a \in Compressions} \cup {JUNK, ZSTD_STREAM}
     THEN REPLACEMENT ELSE buf[i]]

\* Buffer.from(str, "utf8"): every token of a string is its own UTF-8 bytes.
BufferFrom(str) == str

\* ------------------------------------------------------ content rewriter

\* A text is a sequence of tokens, each a run of characters that ends where
\* a quote, a blank or an angle bracket ends it, so that no pattern of the
\* rewriter matches across two tokens.

HTTP_ORIGIN_REF == "http://orteil.dashnet.org/cookieclicker"

\* The origin without the prefixed path.
ORIGIN_ROOT == "https://orteil.dashnet.org"

DASHNET_ROOT == "https://dashnet.org"

\* A reference to the origin's prefixed path that names no scheme.
RELATIVE_ORIGIN_REF == "//orteil.dashnet.org/cookieclicker"

CDN_URL == "https://fonts.gstatic.com/a.png"

\* encodeURIComponent(CDN_URL) behind the gateway's path.
FETCH_CDN_URL == "/fetch?url=https%3A%2F%2Ffonts.gstatic.com%2Fa.png"

\* A URL of an allow-listed host whose query holds a percent-escape (%26 is
\* an ampersand inside the value of family).
ESCAPED_URL == "https://fonts.googleapis.com/css?family=A%26B"

\* A URL of an allow-listed host whose path holds a percent sign that starts
\* no escape.
PERCENT_URL == "https://fonts.gstatic.com/100%.png"

\* The absolute URLs of allow-listed auxiliary hosts a text can hold.
CdnUrls == {CDN_URL, ESCAPED_URL, PERCENT_URL}

\* encodeURIComponent(m) on the URLs of the model: the colon, the slashes,
\* the question mark, the equals sign and the percent sign are escaped.
encodeURIComponent(m) ==
  CASE m = "https://fonts.gstatic.com/a.png" -> "https%3A%2F%2Ffonts.gstatic.com%2Fa.png"
    [] m = ESCAPED_URL -> "https%3A%2F%2Ffonts.googleapis.com%2Fcss%3Ffamily%3DA%2526B"
    [] m = PERCENT_URL -> "https%3A%2F%2Ffonts.gstatic.com%2F100%25.png"
    [] m = "https://cdn.jsdelivr.net/a.js" -> "https%3A%2F%2Fcdn.jsdelivr.net%2Fa.js"
    [] m = "https://www.google-analytics.com/analytics.js" ->
         "https%3A%2F%2Fwww.google-analytics.com%2Fanalytics.js"

SRI_ATTRIBUTE == " integrity=\"sha384-x\""

\* A src attribute with a protocol-relative URL, and what part_001 makes of it.
SRC_RELATIVE == "src=\"//cdn.jsdelivr.net/a.js\""

FETCH_SRC == "src=\"/fetch?url=https%3A%2F%2Fcdn.jsdelivr.net%2Fa.js\""

\* A src attribute with a protocol-relative URL of a host that is not in
\* the gateway's allow-list.
SRC_RELATIVE_OTHER == "src=\"//www.google-analytics.com/analytics.js\""

HEAD_END == "</head>"

HEAD_END_UPPER == "</HEAD>"

\* The script index.js injects; it holds: const ORIG_HOST = "orteil.dashnet.org".
safetyScript == "<script>const ORIG_HOST = \"orteil.dashnet.org\"; ... replace(/https?:\\/\\/orteil\\.dashnet\\.org/g, PROXY) ...</script>"

\* The script part_002 injects; it holds: const ORIG = "https://orteil.dashnet.org".
safeScript == "<script>const ORIG = \"https://orteil.dashnet.org\"; ... dest.includes(\"orteil.dashnet.org\") ...</script>"

\* safeScript after the origin-root substitution has run over it.
safeScriptRewritten == "<script>const ORIG = \"/cookieclicker\"; ... dest.includes(\"orteil.dashnet.org\") ...</script>"

\* The banner and script part_001 injects; it holds: url.includes("orteil.dashnet.org").
injection == "<!-- proxied --><script>... url.includes(\"orteil.dashnet.org\") ...</script>"

\* Whether the token holds the origin's hostname, orteil.dashnet.org.
HoldsOriginHost(t) ==
  \/ Includes(t, "orteil.dashnet.org")
  \/ t \in {safetyScript, safeScript, safeScriptRewritten, injection}

\* s.replace(/https?:\/\/orteil\.dashnet\.org\/cookieclicker/g, proxyBase) on
\* one token.
ReplaceOriginPrefixed(t, proxyBase) ==
  IF t \in {"https://orteil.dashnet.org/cookieclicker", "http://orteil.dashnet.org/cookieclicker"}
  THEN proxyBase ELSE t

\* s.replace(/https?:\/\/orteil\.dashnet\.org/g, proxyBase) on one token.
ReplaceOriginRoot(t, proxyBase) ==
  CASE t = ORIGIN_ROOT -> proxyBase
    [] t = safeScript -> safeScriptRewritten
    [] OTHER -> t

\* s.replace(/https?:\/\/dashnet\.org/g, proxyBase) on one token.
ReplaceDashnet(t, proxyBase) == IF t = DASHNET_ROOT THEN proxyBase ELSE t

\* The CDN substitution on one token: /fetch?url= and the encoded match.
ReplaceCdn(t) == IF t \in CdnUrls THEN "/fetch?url=" \o encodeURIComponent(t) ELSE t

\* The removal of integrity and crossorigin attributes on one token.
StripSri(t) == IF t = SRI_ATTRIBUTE THEN "" ELSE t

\* The src= and href= substitutions of part_001 on one token.
ReplaceProtocolRelative(t) ==
  CASE t = SRC_RELATIVE ->
         "src=\"/fetch?url=" \o encodeURIComponent("https://cdn.jsdelivr.net/a.js") \o "\""
    [] t = SRC_RELATIVE_OTHER ->
         "src=\"/fetch?url=" \o encodeURIComponent("https://www.google-analytics.com/analytics.js") \o "\""
    [] OTHER -> t

\* The text without the tokens a substitution emptied.
Joined(s) == SelectSeq(s, LAMBDA t : t # "")

\* Whether /<\/head>/i matches the token.
MatchesHeadEnd(t) == t \in {HEAD_END, HEAD_END_UPPER}

\* s.replace(/<\/head>/i, script + "</head>"): the script goes before the
\* first match, if there is one.
InjectBeforeHeadEnd(s, script) ==
  IF \E i \in DOMAIN s : MatchesHeadEnd(s[i])
  THEN LET i == CHOOSE k \in DOMAIN s : MatchesHeadEnd(s[k]) /\ \A j \in 1..(k - 1) : ~MatchesHeadEnd(s[j])
       IN  SubSeq(s, 1, i - 1) \o <<script>> \o SubSeq(s, i, Len(s))
  ELSE s

\* s.includes("</head>").
IncludesHeadEnd(s) == \E i \in DOMAIN s : s[i] = HEAD_END

\* rewriteText(bodyStr) of index.js.
rewriteText(bodyStr) ==
  LET s == Joined([i \in DOMAIN bodyStr |->
                     StripSri(ReplaceCdn(ReplaceDashnet(ReplaceOriginRoot(
                       ReplaceOriginPrefixed(bodyStr[i], PROXY_PREFIX), PROXY_PREFIX), PROXY_PREFIX)))])
  IN  IF IncludesHeadEnd(s) THEN InjectBeforeHeadEnd(s, safetyScript) ELSE s

\* rewriteText(bodyStr, proxyBase) of part_002.
rewriteTextPatched(bodyStr, proxyBase) ==
  LET s == Joined([i \in DOMAIN bodyStr |->
                     StripSri(ReplaceCdn(ReplaceDashnet(ReplaceOriginRoot(
                       ReplaceOriginPrefixed(bodyStr[i], proxyBase), proxyBase), proxyBase)))])
  IN  IF IncludesHeadEnd(s) THEN InjectBeforeHeadEnd(s, safeScript) ELSE s

\* rewriteHtml(body, proxyBase) of part_001.
rewriteHtml(body, proxyBase) ==
  LET s == Joined([i \in DOMAIN body |->
                     ReplaceProtocolRelative(StripSri(ReplaceCdn(ReplaceOriginRoot(
                       ReplaceOriginPrefixed(body[i], proxyBase), proxyBase))))])
  IN  InjectBeforeHeadEnd(s, injection)

\* The two body.replace calls of part_000.
rewriteInline(body) ==
  [i \in DOMAIN body |-> ReplaceOriginRoot(ReplaceOriginPrefixed(body[i], PROXY_PREFIX), PROXY_PREFIX)]

\* bodyStr.toLowerCase().
LowerText(bodyStr) == [i \in DOMAIN bodyStr |-> toLowerCase(bodyStr[i])]

\* The content-type test of index.js and part_002.
isTextual(ctype) ==
  \/ Includes(ctype, "text/html")
  \/ Includes(ctype, "javascript")
  \/ Includes(ctype, "css")
  \/ Includes(ctype, "application/json")
  \/ Includes(ctype, "text/plain")

\* The content-type test of part_000 and part_001.
isHtml(ctype) == Includes(ctype, "text/html")

\* ----------------------------------------------------- challenge detector

\* isCF of index.js.
isCF(statusCode, bodyStr) ==
  LET lower == LowerText(bodyStr)
  IN  \/ statusCode = 503
      \/ TextIncludes(lower, "__cf_chl_rt_tk")
      \/ TextIncludes(lower, "cf-browser-verification")
      \/ TextIncludes(lower, "checking your browser before accessing")

\* isCloudflareChallengeStatus of part_002.
isCloudflareChallengeStatus(status, bodyStr) ==
  IF status = 0 THEN FALSE
  ELSE IF status = 503 \/ status = 429 THEN TRUE
  ELSE IF bodyStr = <<>> THEN FALSE
  ELSE LET s == LowerText(bodyStr)
       IN  \/ TextIncludes(s, "__cf_chl_rt_tk")
           \/ TextIncludes(s, "cf_chl_")
           \/ TextIncludes(s, "cf-browser-verification")
           \/ TextIncludes(s, "ddos protection")
           \/ TextIncludes(s, "checking your browser before accessing")

\* ------------------------------------------------------------ transfer codec

\* The inner try/catch of index.js and part_002: a failed decompression, or
\* an encoding that is none of the three, leaves the buffer as it is.
DecodeOrKeep(enc, buffer) ==
  IF enc \in Compressions /\ CanDecompress(enc, buffer)
  THEN Decompress(enc, buffer) ELSE buffer

\* Whether the unguarded decompression of part_000 and part_001 throws.
DecodeThrows(enc, buffer) == enc \in Compressions /\ ~CanDecompress(enc, buffer)

\* Re-encoding of the rewritten text.
Reencode(enc, outBuf) == IF enc \in Compressions THEN Compress(enc, outBuf) ELSE outBuf

\* proxyRes.statusCode || 200.
StatusOr200(statusCode) == IF statusCode = 0 THEN 200 ELSE statusCode

\* -------------------------------------------------------- response assembler

\* res.end(buf); ends counts the calls.
End(r, buf) ==
  [r EXCEPT !.body = @ \o buf, !.headersSent = TRUE, !.ended = TRUE, !.ends = @ + 1]

\* res.write(chunk) of a pipe.
WriteChunk(r, chunk) == [r EXCEPT !.body = Append(@, chunk), !.headersSent = TRUE]

\* The challenge branch of index.js: every header, the status, the lowered
\* content-encoding, the raw buffer.
ChallengeResponse(r, headers, statusCode, enc, buffer) ==
  LET copied == CopyHeaders(r.headers, headers, {})
      hs == IF enc # "" THEN SetHeader(copied, "content-encoding", enc) ELSE copied
  IN  End([r EXCEPT !.headers = hs, !.statusCode = StatusOr200(statusCode)], buffer)

\* The challenge branch of part_002: the raw buffer for gzip and br, the
\* decoded bytes for anything else.
PatchedChallengeResponse(r, headers, statusCode, contentEncoding, buffer, decoded) ==
  LET copied == CopyHeaders(r.headers, headers, {})
      staged == [r EXCEPT !.headers = copied, !.statusCode = StatusOr200(statusCode)]
  IN  IF contentEncoding = "gzip"
      THEN End([staged EXCEPT !.headers = SetHeader(copied, "content-encoding", "gzip")], buffer)
      ELSE IF contentEncoding = "br"
      THEN End([staged EXCEPT !.headers = SetHeader(copied, "content-encoding", "br")], buffer)
      ELSE End(staged, decoded)

\* The headers a rewritten text response copies from upstream.
TextHeaders(r, headers) ==
  CopyHeaders(r.headers, headers, {"content-length", "content-security-policy", "x-frame-options"})

\* A slip: the upstream's content-length is passed on.
TextContentLength_upstream(upstreamHeaders, outBuf) == upstreamHeaders["content-length"]

\* The content-length a rewritten text response announces.
TextContentLength(upstreamHeaders, outBuf) == ByteLength(outBuf)

\* The rewritten-text branch of index.js, part_001 and part_002.
TextResponse(r, headers, statusCode, outBuf) ==
  LET copied == TextHeaders(r, headers)
      sized == SetHeader(copied, "content-length", TextContentLength(headers, outBuf))
      hs == IF HeaderOrEmpty(headers, "content-encoding") # ""
            THEN SetHeader(sized, "content-encoding", headers["content-encoding"])
            ELSE sized
  IN  End([r EXCEPT !.headers = hs, !.statusCode = StatusOr200(statusCode)], outBuf)

\* The rewritten-HTML branch of part_000, which also removes a
\* content-encoding header the upstream did not send.
HtmlResponse(r, headers, statusCode, outBuffer) ==
  LET copied == TextHeaders(r, headers)
      sized == SetHeader(copied, "content-length", TextContentLength(headers, outBuffer))
      hs == IF HeaderOrEmpty(headers, "content-encoding") # ""
            THEN SetHeader(sized, "content-encoding", headers["content-encoding"])
            ELSE DeleteHeaders(sized, {"content-encoding"})
  IN  End([r EXCEPT !.headers = hs, !.statusCode = StatusOr200(statusCode)], outBuffer)

\* The headers the binary branch copies from upstream.
BinaryHeaders(r, headers) == CopyHeaders(r.headers, headers, {"content-length"})

\* The binary branch of index.js and part_002: the raw buffer.
BinaryResponse(r, headers, statusCode, buffer) ==
  End([r EXCEPT !.headers = BinaryHeaders(r, headers), !.statusCode = StatusOr200(statusCode)], buffer)

\* A slip: a pipe from a stream that has ended does nothing to the response.
PipeAfterEnd_open(r) == r

\* catch (err) { proxyRes.pipe(res) } once the stream has been read to its
\* end: nothing is left to pipe, and the pipe ends the response.
PipeAfterEnd(r) == End(r, <<>>)

\* ------------------------------------------------- forwarding proxy: state

VARIABLES
  file,      \* the server file that is deployed
  origin,    \* what the origin sent: [statusCode, headers, body]; never changed
  fault,     \* the unexpected failure that has happened, if any
  proxyRes,  \* the upstream response object: [statusCode, headers, unread]
  pc,        \* where onProxyRes stands
  chunks,    \* the chunks read so far; Buffer.concat(chunks) is the buffer
  decoded,   \* the decompressed buffer
  text,      \* bodyStr, then the rewritten text
  outBuf,    \* the re-encoded payload
  path,      \* the branch taken: challenge, text, binary, pipe, fallback
  res,       \* the client response: [statusCode, headers, body, headersSent, ended, ends]
  steps      \* the pipeline steps performed, in order

proxyVars == <<file, origin, fault, proxyRes, pc, chunks, decoded, text, outBuf, path, res, steps>>

\* The state of the fetch gateway.
VARIABLES
  cache,   \* the NodeCache: key -> [value, t], t the time the entry expires
  now,     \* the clock, in seconds
  ticks,   \* how many times the clock has advanced
  reqs     \* the /fetch requests: id -> [pc, raw, url, effects, gone, out, response, ...]

gatewayVars == <<cache, now, ticks, reqs>>

\* The state of a Content Rewriter that is applied on its own.
VARIABLES
  rw   \* [input, outputs]: the text given, and the text after each application

rewriterVars == <<rw>>

\* The bytes the origin sends for a decoded body: compressed as its
\* content-encoding says, or a corrupt stream of that encoding.
UpstreamBody(ce, content, corrupt) ==
  LET alg == toLowerCase(ce)
  IN  IF alg \in Compressions
      THEN (IF corrupt THEN <<JUNK>> \o content ELSE Compress(alg, content))
      ELSE IF alg = "zstd" THEN <<ZSTD_STREAM>>
      ELSE content

UpstreamHeaders(ctype, ce, optional, raw) ==
  [x \in {"content-type", "content-length"} \cup (IF ce # "" THEN {"content-encoding"} ELSE {})
          \cup optional \cup (IF "x-frame-options" \in optional THEN {"x-xss-protection"} ELSE {}) |->
     CASE x = "content-type" -> ctype
       [] x = "content-length" -> ByteLength(raw)
       [] x = "content-encoding" -> ce
       [] x = "content-security-policy" -> "default-src 'self'"
       [] x = "x-frame-options" -> "DENY"
       [] x = "x-xss-protection" -> "1; mode=block"
       [] x = "set-cookie" -> "cf_clearance=1"
       [] x = "location" -> ORIGIN_LOCATION]

OriginResponses ==
  { LET raw == UpstreamBody(ce, content, corrupt)
    IN  [statusCode |-> sc, headers |-> UpstreamHeaders(ctype, ce, optional, raw), body |-> raw] :
      sc \in StatusCodes, ctype \in ContentTypes, ce \in EncodingValues,
      optional \in SUBSET OptionalHeaders, content \in SeqsUpTo(BodyTokens, MaxBody),
      corrupt \in BOOLEAN }

ProxyInit ==
  /\ file \in Files
  /\ origin \in OriginResponses
  /\ fault = "none"
  /\ proxyRes = [statusCode |-> origin.statusCode, headers |-> origin.headers, unread |-> origin.body]
  /\ pc = "start"
  /\ chunks = <<>>
  /\ decoded = <<>>
  /\ text = <<>>
  /\ outBuf = <<>>
  /\ path = "none"
  /\ res = [statusCode |-> 200, headers |-> NoHeaders, body |-> <<>>, headersSent |-> FALSE, ended |-> FALSE, ends |-> 0]
  /\ steps = <<>>

Buffering == file \in {"index.js", "part_002"}

ctypeOf(headers) == toLowerCase(HeaderOrEmpty(headers, "content-type"))

encOf(headers) == toLowerCase(HeaderOrEmpty(headers, "content-encoding"))

\* The headers part_000 and part_001 delete from proxyRes.headers on entry.
BlockingHeaders(f) ==
  IF f = "part_001"
  THEN {"content-security-policy", "x-frame-options", "x-xss-protection"}
  ELSE {"content-security-policy", "x-frame-options"}

\* proxyRes.headers.location with the origin replaced by the proxy prefix,
\* where the response names a location (part_000 and part_001).
RewriteLocation(headers) ==
  IF "location" \in DOMAIN headers /\ headers["location"] = ORIGIN_LOCATION
  THEN [headers EXCEPT !["location"] = "/cookieclicker/cookieclicker/"]
  ELSE headers

\* catch (err) { proxyRes.pipe(res) } after the stream was read to its end.
Fallback ==
  /\ res' = PipeAfterEnd(res)
  /\ path' = "fallback"
  /\ pc' = "done"

\* ----------------------------------------------- forwarding proxy: actions

\* onProxyRes is called with the upstream response's head.  index.js and
\* part_002 start reading the body; part_000 and part_001 rewrite the
\* location, strip the blocking headers, and pipe every response that is not
\* HTML.
onProxyRes ==
  /\ pc = "start"
  /\ IF Buffering
     THEN /\ pc' = "buffer"
          /\ UNCHANGED <<proxyRes, res, path>>
     ELSE LET stripped == DeleteHeaders(RewriteLocation(proxyRes.headers), BlockingHeaders(file))
          IN  /\ proxyRes' = [proxyRes EXCEPT !.headers = stripped]
              /\ IF isHtml(ctypeOf(stripped))
                 THEN /\ pc' = "collect"
                      /\ UNCHANGED <<res, path>>
                 ELSE /\ res' = [res EXCEPT !.headers = BinaryHeaders(res, stripped),
                                            !.statusCode = StatusOr200(proxyRes.statusCode)]
                      /\ path' = "pipe"
                      /\ pc' = "pipe"
  /\ UNCHANGED <<gatewayVars, rewriterVars, file, origin, fault, chunks, decoded, text, outBuf, steps>>

\* for await (const chunk of proxyRes) chunks.push(chunk), and
\* proxyRes.on("data", ...) of part_000 and part_001.
BufferChunk ==
  /\ pc \in {"buffer", "collect"}
  /\ proxyRes.unread # <<>>
  /\ chunks' = Append(chunks, Head(proxyRes.unread))
  /\ proxyRes' = [proxyRes EXCEPT !.unread = Tail(@)]
  /\ steps' = Append(steps, "buffer")
  /\ UNCHANGED <<gatewayVars, rewriterVars, file, origin, fault, pc, decoded, text, outBuf, path, res>>

\* proxyRes.pipe(res): a chunk is written to the client as it arrives.
PipeChunk ==
  /\ pc = "pipe"
  /\ proxyRes.unread # <<>>
  /\ res' = WriteChunk(res, Head(proxyRes.unread))
  /\ proxyRes' = [proxyRes EXCEPT !.unread = Tail(@)]
  /\ steps' = Append(steps, "write")
  /\ UNCHANGED <<gatewayVars, rewriterVars, file, origin, fault, pc, chunks, decoded, text, outBuf, path>>

\* proxyRes.pipe(res): the upstream ends, the pipe ends the response.
PipeEnd ==
  /\ pc = "pipe"
  /\ proxyRes.unread = <<>>
  /\ res' = End(res, <<>>)
  /\ pc' = "done"
  /\ UNCHANGED <<gatewayVars, rewriterVars, file, origin, fault, proxyRes, chunks, decoded, text, outBuf, path, steps>>

\* The upstream stream errors before its end.  for await throws and the
\* catch pipes a destroyed stream; the "end" handler of part_000 and part_001
\* never runs; a pipe stops.  Nothing more is written and nothing ends res.
StreamError ==
  /\ pc \in {"buffer", "collect", "pipe"}
  /\ proxyRes.unread # <<>>
  /\ fault' = "stream"
  /\ pc' = "stalled"
  /\ path' = IF Buffering THEN "fallback" ELSE path
  /\ UNCHANGED <<gatewayVars, rewriterVars, file, origin, proxyRes, chunks, decoded, text, outBuf, res, steps>>

\* Buffer.toString throws where the handler turns the decoded bytes into
\* text (before detection in index.js and part_002, before rewriting in
\* part_000 and part_001); the catch pipes the stream that was read.
ToStringThrows ==
  /\ \/ Buffering /\ pc = "detect"
     \/ ~Buffering /\ pc = "rewrite"
  /\ fault' = "toString"
  /\ Fallback
  /\ UNCHANGED <<gatewayVars, rewriterVars, file, origin, proxyRes, chunks, decoded, text, outBuf, steps>>

\* The first res.setHeader of the assembly throws; the catch pipes the
\* stream that was read.
SetHeaderThrows ==
  /\ pc = "write"
  /\ fault' = "setHeader"
  /\ Fallback
  /\ UNCHANGED <<gatewayVars, rewriterVars, file, origin, proxyRes, chunks, decoded, text, outBuf, steps>>

\* Buffer.concat and the decompression, once the body has been read.
Decode ==
  /\ pc \in {"buffer", "collect"}
  /\ proxyRes.unread = <<>>
  /\ steps' = Append(steps, "decode")
  /\ LET enc == encOf(proxyRes.headers)
     IN  IF Buffering
         THEN /\ decoded' = DecodeOrKeep(enc, chunks)
              /\ IF file = "index.js" /\ ~isTextual(ctypeOf(proxyRes.headers))
                 THEN pc' = "write" /\ path' = "binary"
                 ELSE pc' = "detect" /\ UNCHANGED path
              /\ UNCHANGED res
         ELSE IF DecodeThrows(enc, chunks)
         THEN Fallback /\ UNCHANGED decoded
         ELSE /\ decoded' = DecodeOrKeep(enc, chunks)
              /\ pc' = "rewrite"
              /\ path' = "text"
              /\ UNCHANGED res
  /\ UNCHANGED <<gatewayVars, rewriterVars, file, origin, fault, proxyRes, chunks, text, outBuf>>

\* The decoded bytes become text and the challenge detector decides.
Detect ==
  /\ pc = "detect"
  /\ steps' = Append(steps, "detect")
  /\ LET bodyStr == toString(decoded)
     IN  /\ text' = bodyStr
         /\ IF file = "index.js"
            THEN IF isCF(proxyRes.statusCode, bodyStr)
                 THEN pc' = "write" /\ path' = "challenge"
                 ELSE pc' = "rewrite" /\ path' = "text"
            ELSE IF isCloudflareChallengeStatus(proxyRes.statusCode, bodyStr)
                 THEN pc' = "write" /\ path' = "challenge"
                 ELSE IF isTextual(ctypeOf(proxyRes.headers))
                 THEN pc' = "rewrite" /\ path' = "text"
                 ELSE pc' = "write" /\ path' = "binary"
  /\ UNCHANGED <<gatewayVars, rewriterVars, file, origin, fault, proxyRes, chunks, decoded, outBuf, res>>

\* The Content Rewriter runs on the text.
Rewrite ==
  /\ pc = "rewrite"
  /\ steps' = Append(steps, "rewrite")
  /\ text' = CASE file = "index.js" -> rewriteText(text)
               [] file = "part_002" -> rewriteTextPatched(text, PROXY_PREFIX)
               [] file = "part_001" -> rewriteHtml(toString(decoded), PROXY_PREFIX)
               [] file = "part_000" -> rewriteInline(toString(decoded))
  /\ pc' = "encode"
  /\ UNCHANGED <<gatewayVars, rewriterVars, file, origin, fault, proxyRes, chunks, decoded, outBuf, res, path>>

\* The rewritten text is re-encoded.
Encode ==
  /\ pc = "encode"
  /\ steps' = Append(steps, "encode")
  /\ outBuf' = Reencode(encOf(proxyRes.headers), BufferFrom(text))
  /\ pc' = "write"
  /\ UNCHANGED <<gatewayVars, rewriterVars, file, origin, fault, proxyRes, chunks, decoded, text, path, res>>

\* The response is assembled and written.
Write ==
  /\ pc = "write"
  /\ steps' = Append(steps, "write")
  /\ pc' = "done"
  /\ res' =
       CASE path = "challenge" /\ file = "index.js" ->
              ChallengeResponse(res, proxyRes.headers, proxyRes.statusCode,
                                encOf(proxyRes.headers), chunks)
         [] path = "challenge" /\ file # "index.js" ->
              PatchedChallengeResponse(res, proxyRes.headers, proxyRes.statusCode,
                                       encOf(proxyRes.headers), chunks, decoded)
         [] path = "text" /\ file = "part_000" ->
              HtmlResponse(res, proxyRes.headers, proxyRes.statusCode, outBuf)
         [] path = "text" /\ file # "part_000" ->
              TextResponse(res, proxyRes.headers, proxyRes.statusCode, outBuf)
         [] path = "binary" ->
              BinaryResponse(res, proxyRes.headers, proxyRes.statusCode, chunks)
  /\ UNCHANGED <<gatewayVars, rewriterVars, file, origin, fault, proxyRes, chunks, decoded, text, outBuf, path>>

\* The forwarding proxy handles one upstream response.
Next ==
  \/ onProxyRes
  \/ BufferChunk
  \/ PipeChunk
  \/ PipeEnd
  \/ StreamError
  \/ ToStringThrows
  \/ SetHeaderThrows
  \/ Decode
  \/ Detect
  \/ Rewrite
  \/ Encode
  \/ Write

\* ------------------------------------------------------------ fetch gateway

\* The /fetch requests one run serves.
MaxRequests == 2

\* How many times the clock advances in one run.
MaxTicks == 2

ALLOWED_HOSTS ==
  {"orteil.dashnet.org", "dashnet.org", "ajax.googleapis.com", "fonts.googleapis.com",
   "fonts.gstatic.com", "cdn.jsdelivr.net", "cdnjs.cloudflare.com"}

\* new NodeCache({ stdTTL: 60 * 60 }), in seconds.
stdTTL == 60 * 60

\* The clock advances by the time to live: an entry is looked up when it is
\* inserted, when it is exactly stdTTL old, and when it is older.
TickSeconds == stdTTL

\* req.query.url when the query string has no url parameter.
UNDEFINED == "<undefined>"

FONT_URL == "https://fonts.gstatic.com/a.png"

\* The values of req.query.url (after the framework's query decoding):
\* none, empty, an allow-listed URL, the same URL still percent-encoded, a
\* URL of another host, text that is no URL, a malformed percent escape.
RawValues ==
  {UNDEFINED, "", FONT_URL, "https%3A%2F%2Ffonts.gstatic.com%2Fa.png",
   "http://evil.example.com/x", "not a url", "%E0%A4%A"}

\* Whether decodeURIComponent(raw) throws a URIError: a percent sign that
\* starts no escape, an escape that is no UTF-8.
DecodeURIThrows(raw) == raw \in {"%E0%A4%A", PERCENT_URL}

\* decodeURIComponent(raw) where it does not throw: every escape becomes
\* the character it stands for (%25 a percent sign, %26 an ampersand).
decodeURIComponent(raw) ==
  CASE raw = "https%3A%2F%2Ffonts.gstatic.com%2Fa.png" -> FONT_URL
    [] raw = "https%3A%2F%2Ffonts.googleapis.com%2Fcss%3Ffamily%3DA%2526B" -> ESCAPED_URL
    [] raw = "https%3A%2F%2Ffonts.gstatic.com%2F100%25.png" -> PERCENT_URL
    [] raw = "https%3A%2F%2Fcdn.jsdelivr.net%2Fa.js" -> "https://cdn.jsdelivr.net/a.js"
    [] raw = "https%3A%2F%2Fwww.google-analytics.com%2Fanalytics.js" ->
         "https://www.google-analytics.com/analytics.js"
    [] raw = ESCAPED_URL -> "https://fonts.googleapis.com/css?family=A&B"
    [] OTHER -> raw

\* The framework's parsing of the query string (qs): the value of url is
\* percent-decoded once, and left as it is where that fails.
queryDecode(value) == IF DecodeURIThrows(value) THEN value ELSE decodeURIComponent(value)

\* Whether new URL(url) throws.
URLThrows(url) == url \in {"not a url", "", UNDEFINED}

\* new URL(url).hostname where new URL does not throw.
hostname(url) ==
  CASE url = FONT_URL -> "fonts.gstatic.com"
    [] url = "http://evil.example.com/x" -> "evil.example.com"
    [] url = PERCENT_URL -> "fonts.gstatic.com"
    [] url \in {ESCAPED_URL, "https://fonts.googleapis.com/css?family=A&B"} -> "fonts.googleapis.com"
    [] url = "https://cdn.jsdelivr.net/a.js" -> "cdn.jsdelivr.net"
    [] url = "https://www.google-analytics.com/analytics.js" -> "www.google-analytics.com"
    [] OTHER -> ""

\* What an allow-listed host answers: a status, headers and a body.
UpstreamReplies ==
  { [statusCode |-> 200,
     headers |-> [x \in {"content-type", "set-cookie", "content-security-policy"} |->
                    CASE x = "content-type" -> "image/png"
                      [] x = "set-cookie" -> "id=1"
                      [] OTHER -> "default-src 'self'"],
     bodyBuffer |-> <<"png">>],
    [statusCode |-> 200,
     headers |-> [x \in {"content-type", "cache-control", "x-frame-options"} |->
                    CASE x = "content-type" -> "text/css"
                      [] x = "cache-control" -> "public, max-age=86400"
                      [] OTHER -> "DENY"],
     bodyBuffer |-> <<"css">>],
    [statusCode |-> 200,
     headers |-> [x \in {"content-type"} |-> "text/css"],
     bodyBuffer |-> <<"css2">>],
    [statusCode |-> 404,
     headers |-> [x \in {"content-type"} |-> "text/plain"],
     bodyBuffer |-> <<"not found">>] }

\* What an allow-listed host answers when it sends the client elsewhere.
RedirectReply(location) ==
  [statusCode |-> 302,
   headers |-> [x \in {"location"} |-> location],
   bodyBuffer |-> <<>>]

\* Where a 3xx answer can point: the allow-listed URL, a URL of another host.
RedirectLocations == {FONT_URL, "http://evil.example.com/x"}

\* k copies of x.
Repeated(x, k) == [i \in 1..k |-> x]

\* maxRedirections of the outbound request.
maxRedirections == 5

\* The 3xx answers an outbound request meets before another answer: none,
\* or one, maxRedirections, or one more than maxRedirections, each pointing
\* to the same location.
RedirectChains ==
  {<<>>} \cup {Repeated(location, k) : location \in RedirectLocations,
                                       k \in {1, maxRedirections, maxRedirections + 1}}

\* The redirections of a chain that the outbound request follows.
Followed(chain) ==
  SubSeq(chain, 1, IF Len(chain) > maxRedirections THEN maxRedirections ELSE Len(chain))

\* The hosts an outbound request contacts by following a chain.
Visited(chain) == {hostname(Followed(chain)[i]) : i \in DOMAIN Followed(chain)}

\* The answer backendFetch reads at the end of a chain: the upstream's, or
\* the 3xx answer that is one too many to follow.
LastReply(chain, reply) ==
  IF Len(chain) > maxRedirections THEN RedirectReply(chain[Len(chain)]) ELSE reply

\* What an outbound request can come back with: the hosts it visited on
\* the way and the answer backendFetch reads.
UpstreamOutcomes ==
  {[visited |-> Visited(chain), last |-> LastReply(chain, reply)] :
     chain \in RedirectChains, reply \in UpstreamReplies}

\* The raw value of a request that calls backendFetch without the /fetch
\* handler.
DIRECT == "<direct call>"

\* The requests, numbered in the order they arrive.
RequestIds == 1..MaxRequests

NoResponse == [status |-> 0, headers |-> NoHeaders, body |-> <<>>]

\* No value returned by backendFetch yet.
NoOut == [statusCode |-> 0, headers |-> NoHeaders, bodyBuffer |-> <<>>]

IdleRequest ==
  [pc |-> "idle", raw |-> UNDEFINED, url |-> "", noCache |-> FALSE, effects |-> <<>>,
   contacted |-> {}, found |-> "none", setAt |-> 0, gone |-> FALSE,
   out |-> NoOut, response |-> NoResponse]

GatewayInit ==
  /\ cache = [k \in {} |-> 0]
  /\ now = 0
  /\ ticks = 0
  /\ reqs = [r \in RequestIds |-> IdleRequest]

\* res.status(code).send(text).
Send(code, message) == [status |-> code, headers |-> NoHeaders, body |-> <<message>>]

\* A slip: an entry never expires.
CacheHit_forever(c, ck, time) == ck \in DOMAIN c

\* cache.get(ck): the value of an entry that has not expired.
CacheHit(c, ck, time) == ck \in DOMAIN c /\ ~(c[ck].t < time)

\* cache.get(ck) deletes an entry it finds expired.
CacheAfterGet(c, ck, time) ==
  IF ck \in DOMAIN c /\ c[ck].t < time THEN [k \in DOMAIN c \ {ck} |-> c[k]] ELSE c

\* What a lookup at the given time meets: no entry, an entry inserted at most
\* stdTTL ago, an entry inserted longer ago.
Found(c, ck, time) ==
  CASE ck \notin DOMAIN c -> "none"
    [] ck \in DOMAIN c /\ time > c[ck].at + stdTTL -> "expired"
    [] OTHER -> "fresh"

\* cache.set(ck, out): the entry expires stdTTL from now (at is the time of
\* the insertion).
CacheSet(c, ck, out, time) ==
  [k \in DOMAIN c \cup {ck} |->
     IF k = ck THEN [value |-> out, t |-> time + stdTTL, at |-> time] ELSE c[k]]

\* The cache key of backendFetch.
CacheKey(url) == url

\* The cache decision of backendFetch; part_001 groups it as
\* (!noCache && image) || max-age.
Cacheable(f, noCache, headers) ==
  LET image == Includes(HeaderOrEmpty(headers, "content-type"), "image")
      maxAge == Includes(HeaderOrEmpty(headers, "cache-control"), "max-age")
  IN  IF f = "part_001"
      THEN (~noCache /\ image) \/ maxAge
      ELSE ~noCache /\ (image \/ maxAge)

\* A slip: the cookie is let through.
FetchResponse_keepCookie(out) ==
  [status |-> out.statusCode,
   headers |-> DeleteHeaders(out.headers, {"content-security-policy", "x-frame-options"}),
   body |-> out.bodyBuffer]

\* The /fetch handler's answer from what backendFetch returned.
FetchResponse(out) ==
  [status |-> out.statusCode,
   headers |-> DeleteHeaders(out.headers, {"content-security-policy", "x-frame-options", "set-cookie"}),
   body |-> out.bodyBuffer]

\* What the caller of backendFetch sends to its client: the /fetch handler
\* its answer, a direct caller nothing.
Answer(q, response) == IF q.raw = DIRECT THEN NoResponse ELSE response

\* Where the /fetch handler tests the url parameter: before anything else.
MissingUrl(raw) == raw = UNDEFINED \/ raw = ""

\* A slip: the allow-list is not consulted.
HostRejected_never(url) == FALSE

\* Whether the handler rejects the parsed host.
HostRejected(url) == hostname(url) \notin ALLOWED_HOSTS

\* Requests arrive in the order of their numbers.
Arrives(r) == reqs[r].pc = "idle" /\ (IF r = 1 THEN TRUE ELSE reqs[r - 1].pc # "idle")

\* backendFetch(url, opts) up to its await: the cached value, or the
\* outbound request.  q is the request with what its caller did before.
backendFetchCall(r, q, url, noCache) ==
  LET ck == CacheKey(url)
      called == [q EXCEPT !.url = url, !.noCache = noCache,
                          !.found = IF noCache THEN "none" ELSE Found(cache, ck, now)]
  IN  IF ~noCache /\ CacheHit(cache, ck, now)
      THEN /\ reqs' = [reqs EXCEPT ![r] =
                         [called EXCEPT !.pc = "done", !.effects = @ \o <<"cache.get">>,
                                        !.out = cache[ck].value,
                                        !.response = Answer(q, FetchResponse(cache[ck].value))]]
           /\ UNCHANGED cache
      ELSE /\ reqs' = [reqs EXCEPT ![r] =
                         [called EXCEPT !.pc = "awaiting",
                                        !.effects = @ \o (IF noCache THEN <<"request">>
                                                          ELSE <<"cache.get", "request">>),
                                        !.contacted = {hostname(url)}]]
           /\ cache' = IF noCache THEN cache ELSE CacheAfterGet(cache, ck, now)

\* app.get("/fetch"): from the request to its answer, or to the outbound
\* request backendFetch awaits.  A URIError of decodeURIComponent is thrown
\* outside the try: the framework either leaves the rejected promise
\* unhandled and the request unanswered (Express 4) or answers 500
\* (Express 5).
fetchHandler(r, raw) ==
  /\ Arrives(r)
  /\ IF MissingUrl(raw)
     THEN /\ reqs' = [reqs EXCEPT ![r] = [@ EXCEPT !.pc = "done", !.raw = raw,
                                                   !.response = Send(400, "missing url")]]
          /\ UNCHANGED cache
     ELSE IF DecodeURIThrows(raw)
     THEN /\ \/ reqs' = [reqs EXCEPT ![r] = [@ EXCEPT !.pc = "rejected", !.raw = raw,
                                                      !.effects = <<"decodeURIComponent">>]]
             \/ reqs' = [reqs EXCEPT ![r] = [@ EXCEPT !.pc = "done", !.raw = raw,
                                                      !.effects = <<"decodeURIComponent">>,
                                                      !.response = Send(500, "Internal Server Error")]]
          /\ UNCHANGED cache
     ELSE LET url == decodeURIComponent(raw)
              parsing == [reqs[r] EXCEPT !.raw = raw, !.url = url,
                                         !.effects = <<"decodeURIComponent", "new URL">>]
          IN  IF URLThrows(url)
              THEN /\ reqs' = [reqs EXCEPT ![r] = [parsing EXCEPT !.pc = "done",
                                                                  !.response = Send(502, "bad gateway")]]
                   /\ UNCHANGED cache
              ELSE IF HostRejected(url)
              THEN /\ reqs' = [reqs EXCEPT ![r] = [parsing EXCEPT !.pc = "done",
                                                                  !.response = Send(403, "host not allowed")]]
                   /\ UNCHANGED cache
              ELSE backendFetchCall(r, parsing, url, FALSE)
  /\ UNCHANGED <<now, ticks, proxyVars, rewriterVars>>

\* backendFetch(url, opts) called by code other than the /fetch handler,
\* with the options of its choice.
directCall(r, url, noCache) ==
  /\ Arrives(r)
  /\ backendFetchCall(r, [reqs[r] EXCEPT !.raw = DIRECT], url, noCache)
  /\ UNCHANGED <<now, ticks, proxyVars, rewriterVars>>

\* The request has its answer.
Completed(q, out, response) ==
  [q EXCEPT !.pc = "done", !.out = out, !.response = Answer(q, response)]

\* backendFetch resumes with the upstream's answer, after the redirections
\* the outbound request followed, whatever their hosts: throwOnError throws
\* on a status of 400 and above, anything else is read, cached if
\* cacheable, and answered.
backendFetch(r, outcome) ==
  /\ reqs[r].pc = "awaiting"
  /\ LET last == outcome.last
         q == [reqs[r] EXCEPT !.contacted = @ \cup outcome.visited]
     IN  IF last.statusCode >= 400
         THEN /\ reqs' = [reqs EXCEPT ![r] = Completed(q, NoOut, Send(502, "bad gateway"))]
              /\ UNCHANGED cache
         ELSE IF Cacheable(file, q.noCache, last.headers)
         THEN /\ cache' = CacheSet(cache, CacheKey(q.url), last, now)
              /\ reqs' = [reqs EXCEPT ![r] =
                            [Completed(q, last, FetchResponse(last))
                               EXCEPT !.effects = Append(@, "cache.set"), !.setAt = now]]
         ELSE /\ reqs' = [reqs EXCEPT ![r] = Completed(q, last, FetchResponse(last))]
              /\ UNCHANGED cache
  /\ UNCHANGED <<now, ticks, proxyVars, rewriterVars>>

\* The outbound request fails (connection refused, timeout, TLS failure).
UpstreamFails(r) ==
  /\ reqs[r].pc = "awaiting"
  /\ reqs' = [reqs EXCEPT ![r] = Completed(@, NoOut, Send(502, "bad gateway"))]
  /\ UNCHANGED <<cache, now, ticks, proxyVars, rewriterVars>>

\* Time passes.
Tick ==
  /\ ticks < MaxTicks
  /\ ticks' = ticks + 1
  /\ now' = now + TickSeconds
  /\ UNCHANGED <<cache, reqs, proxyVars, rewriterVars>>

\* The cache's periodic check deletes the entries that have expired.
checkData ==
  /\ \E k \in DOMAIN cache : cache[k].t < now
  /\ cache' = [k \in {j \in DOMAIN cache : ~(cache[j].t < now)} |-> cache[k]]
  /\ UNCHANGED <<now, ticks, reqs, proxyVars, rewriterVars>>

\* The fetch gateway serves /fetch requests.
FetchNext ==
  \/ \E r \in RequestIds, raw \in RawValues : fetchHandler(r, raw)
  \/ \E r \in RequestIds, outcome \in UpstreamOutcomes : backendFetch(r, outcome)
  \/ \E r \in RequestIds : UpstreamFails(r)
  \/ Tick
  \/ checkData

\* The client of a /fetch request goes away while backendFetch awaits the
\* upstream.  The handler listens for no close or aborted event and gives the
\* outbound request no signal, so the request stays where it is.
clientDisconnects(r) ==
  /\ reqs[r].pc = "awaiting"
  /\ ~reqs[r].gone
  /\ reqs' = [reqs EXCEPT ![r] = [@ EXCEPT !.gone = TRUE]]
  /\ UNCHANGED <<cache, now, ticks, proxyVars, rewriterVars>>

\* The fetch gateway serves /fetch requests whose clients may go away.
CancelNext ==
  \/ \E r \in RequestIds, raw \in RawValues : fetchHandler(r, raw)
  \/ \E r \in RequestIds, outcome \in UpstreamOutcomes : backendFetch(r, outcome)
  \/ \E r \in RequestIds : UpstreamFails(r)
  \/ \E r \in RequestIds : clientDisconnects(r)

\* backendFetch serves callers that choose its options.
BackendNext ==
  \/ \E r \in RequestIds, noCache \in BOOLEAN : directCall(r, FONT_URL, noCache)
  \/ \E r \in RequestIds, outcome \in UpstreamOutcomes : backendFetch(r, outcome)
  \/ \E r \in RequestIds : UpstreamFails(r)
  \/ Tick
  \/ checkData

\* ---------------------------------------------------------- specifications

vars == <<proxyVars, gatewayVars, rewriterVars>>

\* No rewriter is applied on its own.
RewriterIdle == rw = [input |-> <<>>, outputs |-> <<>>]

\* The forwarding proxy handles one upstream response; no /fetch request is made.
Init == ProxyInit /\ GatewayInit /\ RewriterIdle

Spec == Init /\ [][Next]_vars

\* The servers whose /fetch is the gateway (part_000 has none; part_002
\* holds a placeholder that defers to the existing implementation).
GatewayFiles == {"index.js", "part_001"}

\* The proxy part of the state while only /fetch requests are served.
ProxyIdle ==
  /\ origin = [statusCode |-> 200, headers |-> NoHeaders, body |-> <<>>]
  /\ fault = "none"
  /\ proxyRes = [statusCode |-> 200, headers |-> NoHeaders, unread |-> <<>>]
  /\ pc = "idle"
  /\ chunks = <<>>
  /\ decoded = <<>>
  /\ text = <<>>
  /\ outBuf = <<>>
  /\ path = "none"
  /\ res = [statusCode |-> 200, headers |-> NoHeaders, body |-> <<>>, headersSent |-> FALSE, ended |-> FALSE, ends |-> 0]
  /\ steps = <<>>

FetchInit == file \in GatewayFiles /\ ProxyIdle /\ GatewayInit /\ RewriterIdle

\* The fetch gateway serves /fetch requests.
FetchSpec == FetchInit /\ [][FetchNext]_vars

\* backendFetch is called with either value of opts.noCache.
BackendSpec == FetchInit /\ [][BackendNext]_vars

\* /fetch requests are served while clients disconnect.
CancelSpec == FetchInit /\ [][CancelNext]_vars

\* ------------------------------------------------------ rewriter on its own

\* The longest text given to a rewriter, in tokens.
MaxText == 2

\* How many times in a row a rewriter is applied to its own output.
MaxPasses == 2

\* The tokens a text is drawn from.
RewriterTokens ==
  {"x", ORIGIN_REF, HTTP_ORIGIN_REF, ORIGIN_ROOT, DASHNET_ROOT, RELATIVE_ORIGIN_REF,
   CDN_URL, SRI_ATTRIBUTE, SRC_RELATIVE, HEAD_END, HEAD_END_UPPER}

\* The Content Rewriter of the deployed file.
Rewriter(f, t) ==
  CASE f = "index.js" -> rewriteText(t)
    [] f = "part_000" -> rewriteInline(t)
    [] f = "part_001" -> rewriteHtml(t, PROXY_PREFIX)
    [] f = "part_002" -> rewriteTextPatched(t, PROXY_PREFIX)

RewriterInit ==
  /\ file \in Files
  /\ ProxyIdle
  /\ GatewayInit
  /\ rw \in {[input |-> t, outputs |-> <<>>] : t \in SeqsUpTo(RewriterTokens, MaxText)}

\* The rewriter is applied to the text, or to its own last output.
ApplyRewriter ==
  /\ Len(rw.outputs) < MaxPasses
  /\ rw' = [rw EXCEPT !.outputs =
               Append(@, Rewriter(file, IF @ = <<>> THEN rw.input ELSE @[Len(@)]))]
  /\ UNCHANGED <<proxyVars, gatewayVars>>

RewriterNext == ApplyRewriter

\* A Content Rewriter is applied to a text, and again to what it returned.
RewriterSpec == RewriterInit /\ [][RewriterNext]_vars

\* ------------------------------------------- rewriter and gateway together

\* The tokens of a page that refers to auxiliary hosts.
RoundTripTokens == {"x", CDN_URL, ESCAPED_URL, PERCENT_URL, SRC_RELATIVE, SRC_RELATIVE_OTHER}

\* The URLs the references of a page name.
ReferencedUrls ==
  CdnUrls \cup {"https://cdn.jsdelivr.net/a.js", "https://www.google-analytics.com/analytics.js"}

\* Whether the token is a reference to the /fetch endpoint.
IsFetchReference(t) ==
  \E u \in ReferencedUrls :
    t \in {"/fetch?url=" \o encodeURIComponent(u),
           "src=\"/fetch?url=" \o encodeURIComponent(u) \o "\""}

\* The value of the url parameter in a reference to the /fetch endpoint, as
\* it stands in the query string.
urlParameter(t) ==
  LET u == CHOOSE v \in ReferencedUrls :
             t \in {"/fetch?url=" \o encodeURIComponent(v),
                    "src=\"/fetch?url=" \o encodeURIComponent(v) \o "\""}
  IN  encodeURIComponent(u)

\* Upstream answers that come without a redirection.
DirectOutcomes == {outcome \in UpstreamOutcomes : outcome.visited = {}}

RoundTripInit ==
  /\ file \in GatewayFiles
  /\ ProxyIdle
  /\ GatewayInit
  /\ rw \in {[input |-> t, outputs |-> <<>>] : t \in SeqsUpTo(RoundTripTokens, MaxText)}

\* The Content Rewriter runs on the page, once.
RewriteOnce ==
  /\ rw.outputs = <<>>
  /\ ApplyRewriter

\* The browser requests the i-th token of the rewritten page, a reference
\* to the /fetch endpoint: the framework decodes the query string and the
\* handler runs on the value.
followReference(r, i) ==
  /\ rw.outputs # <<>>
  /\ i \in DOMAIN rw.outputs[1]
  /\ IsFetchReference(rw.outputs[1][i])
  /\ fetchHandler(r, queryDecode(urlParameter(rw.outputs[1][i])))

\* A page is rewritten and its /fetch references are requested.
RoundTripNext ==
  \/ RewriteOnce
  \/ \E r \in RequestIds, i \in 1..(MaxText + 1) : followReference(r, i)
  \/ \E r \in RequestIds, outcome \in DirectOutcomes : backendFetch(r, outcome)
  \/ \E r \in RequestIds : UpstreamFails(r)

RoundTripSpec == RoundTripInit /\ [][RoundTripNext]_vars

\* ------------------------------------------------ forwarding proxy: claims

CSP == "content-security-policy"

XFO == "x-frame-options"

\* The response has been written on the challenge branch.
ChallengeWritten == pc = "done" /\ path = "challenge"

\* The response has been written on the rewritten-text branch.
TextWritten == pc = "done" /\ path = "text"

\* The response has been written on the binary branch.
BinaryWritten == pc = "done" /\ path = "binary"

\* The client has header h with the value the origin sent (content-encoding
\* values are compared without regard to letter case).
ClientHasUpstream(h) ==
  /\ h \in DOMAIN res.headers
  /\ IF h = "content-encoding"
     THEN toLowerCase(res.headers[h]) = toLowerCase(origin.headers[h])
     ELSE res.headers[h] = origin.headers[h]

\* The origin labelled the body with a compression its bytes are not.
DecodeFails ==
  /\ encOf(origin.headers) \in Compressions
  /\ ~CanDecompress(encOf(origin.headers), origin.body)

\* C1: a response classified as a challenge reaches the client with the
\* upstream status, every upstream header other than content-security-policy
\* and x-frame-options, and the raw, still-compressed upstream body, for
\* every content-encoding; the Content Rewriter is not applied.
C1_ChallengeRelayedRaw ==
  ChallengeWritten =>
    /\ res.statusCode = origin.statusCode
    /\ \A h \in DOMAIN origin.headers \ {CSP, XFO} : ClientHasUpstream(h)
    /\ res.body = origin.body
    /\ \A i \in DOMAIN steps : steps[i] # "rewrite"

\* C2: no response relayed as a challenge carries content-security-policy or
\* x-frame-options to the client.
C2_ChallengeStripsBlockingHeaders ==
  ChallengeWritten => CSP \notin DOMAIN res.headers /\ XFO \notin DOMAIN res.headers

\* The decoded body holds one of the challenge markers, in any letter case.
HasChallengeMarker(body) ==
  \E m \in {"__cf_chl_rt_tk", "cf_chl_", "cf-browser-verification",
            "checking your browser before accessing"} :
    TextIncludes(LowerText(toString(body)), m)

\* C3: in the servers that have a Challenge Detector, a response takes the
\* challenge path exactly when its status is 503 or 429 or its decoded body
\* holds a challenge marker, whatever its content-type.
C3_ChallengeIffStatusOrMarker ==
  (Buffering /\ pc = "done" /\ fault = "none") =>
    (path = "challenge" <=>
       (origin.statusCode \in {503, 429} \/ HasChallengeMarker(decoded)))

\* C4: a non-challenge response, rewritten text or binary, carries neither
\* content-security-policy nor x-frame-options.
C4_NonChallengeStripsBlockingHeaders ==
  (TextWritten \/ BinaryWritten) =>
    CSP \notin DOMAIN res.headers /\ XFO \notin DOMAIN res.headers

\* C5: a rewritten text response announces, as content-length, the byte
\* length of the body that is written.
C5_ContentLengthIsWrittenLength ==
  TextWritten =>
    /\ "content-length" \in DOMAIN res.headers
    /\ res.headers["content-length"] = ByteLength(res.body)

\* C5's case: a rewritten response whose length differs from the upstream's.
C5_Witness ==
  /\ TextWritten
  /\ text # toString(decoded)
  /\ ByteLength(res.body) # origin.headers["content-length"]

\* C6: on the rewritten-text path the content-encoding header is truthful:
\* a header naming gzip, deflate or br is the upstream's, and the body is
\* the rewritten text compressed with that algorithm; without a header (or
\* with identity) the body is the rewritten text as it is; under a header
\* naming any other algorithm the body is the upstream's bytes, unchanged.
C6_ContentEncodingTruthful ==
  TextWritten =>
    LET ce == toLowerCase(HeaderOrEmpty(res.headers, "content-encoding"))
    IN  /\ ce = encOf(origin.headers)
        /\ HeaderOrEmpty(res.headers, "content-encoding") =
             HeaderOrEmpty(origin.headers, "content-encoding")
        /\ IF ce \in Compressions
           THEN /\ CanDecompress(ce, res.body)
                /\ Decompress(ce, res.body) = BufferFrom(text)
           ELSE IF ce \in {"", "identity"}
           THEN res.body = BufferFrom(text)
           ELSE res.body = origin.body

\* C7: when the upstream body cannot be decompressed and nothing else
\* fails, the response is completed with the upstream status, the rewriter
\* has not run, and the raw upstream bytes are the body.
C7_DecodeFailureRelaysRaw ==
  (DecodeFails /\ pc = "done" /\ fault = "none") =>
    /\ res.ended
    /\ res.statusCode = origin.statusCode
    /\ \A i \in DOMAIN steps : steps[i] # "rewrite"
    /\ res.body = origin.body

\* C8: when an unexpected error is raised after the body was read (while it
\* is turned into text, or while the headers are assembled), the client
\* still gets the whole upstream body and the upstream headers.
C8_FallbackRelaysOriginal ==
  (pc = "done" /\ fault \in {"toString", "setHeader"}) =>
    /\ res.ended
    /\ res.body = origin.body
    /\ \A h \in DOMAIN origin.headers : ClientHasUpstream(h)

StepRank(step) ==
  CASE step = "buffer" -> 1
    [] step = "decode" -> 2
    [] step = "detect" -> 3
    [] step = "rewrite" -> 4
    [] step = "encode" -> 5
    [] step = "write" -> 6

\* C9: nothing is written to the client while a chunk of the upstream body
\* is still to come, and the steps buffer, decode, detect, rewrite, encode,
\* write happen in that order, each after buffering at most once.
C9_NothingWrittenBeforeLastChunk ==
  /\ (res.headersSent \/ res.body # <<>>) => proxyRes.unread = <<>>
  /\ \A i, j \in DOMAIN steps :
       i < j => \/ StepRank(steps[i]) < StepRank(steps[j])
                \/ steps[i] = "buffer" /\ steps[j] = "buffer"

\* --------------------------------------------------- fetch gateway: claims

\* Whether the request has performed the effect.
Did(q, effect) == \E i \in DOMAIN q.effects : q.effects[i] = effect

\* C10: a /fetch request answered 400 or 403 has made no outbound request
\* and no cache read or insert; one answered 400 has parsed no URL; a
\* request without the url parameter is answered 400, and one whose URL
\* parses to a host outside the allow-list is answered 403.
C10_RejectedFetchTouchesNothing ==
  \A r \in RequestIds :
    LET q == reqs[r]
    IN  /\ q.response.status \in {400, 403} =>
             ~Did(q, "request") /\ ~Did(q, "cache.get") /\ ~Did(q, "cache.set")
        /\ q.response.status = 400 => ~Did(q, "new URL")
        /\ (q.pc # "idle" /\ q.raw \in {UNDEFINED, ""}) => q.response.status = 400
        /\ (q.pc # "idle" /\ q.raw = "http://evil.example.com/x") => q.response.status = 403

\* C10's case: one request was refused for its host, another for its
\* missing parameter.
C10_Witness ==
  \E r1, r2 \in RequestIds :
    /\ reqs[r1].response.status = 403
    /\ reqs[r1].url = "http://evil.example.com/x"
    /\ reqs[r2].response.status = 400
    /\ reqs[r2].raw = UNDEFINED

\* C11: every host an outbound request of the gateway contacts, the hosts it
\* is redirected to included, is in the allow-list.
C11_OutboundHostsAllowListed ==
  \A r \in RequestIds : reqs[r].contacted \subseteq ALLOWED_HOSTS

\* C12: every /fetch request that has ended was answered, and with 400 when
\* the url parameter is missing, 403 when the host is not allow-listed, and
\* otherwise either 502 or the upstream's own status and body; nothing ends
\* a request in another way.
C12_FetchOutcomes ==
  \A r \in RequestIds :
    LET q == reqs[r]
    IN  q.pc \notin {"idle", "awaiting"} =>
          /\ q.pc = "done"
          /\ IF MissingUrl(q.raw) THEN q.response.status = 400
             ELSE IF ~URLThrows(q.url) /\ HostRejected(q.url) THEN q.response.status = 403
             ELSE \/ q.response.status = 502 /\ q.out = NoOut
                  \/ /\ q.out # NoOut
                     /\ q.response.status = q.out.statusCode
                     /\ q.response.body = q.out.bodyBuffer

\* The headers the gateway keeps from the client.
WithheldHeaders == {"set-cookie", "content-security-policy", "x-frame-options"}

\* The request was answered from the cache, without an outbound request.
ServedFromCache(q) == q.pc = "done" /\ Did(q, "cache.get") /\ ~Did(q, "request")

\* The request was answered from an upstream answer it fetched itself.
ServedFresh(q) == q.pc = "done" /\ Did(q, "request") /\ q.out # NoOut

\* C13: a /fetch answer, fetched or served from the cache, carries none of
\* set-cookie, content-security-policy and x-frame-options, and carries
\* every other upstream header with the upstream's value.
C13_FetchStripsHeaders ==
  \A r \in RequestIds :
    LET q == reqs[r]
    IN  (ServedFromCache(q) \/ ServedFresh(q)) =>
          /\ DOMAIN q.response.headers \cap WithheldHeaders = {}
          /\ \A h \in DOMAIN q.out.headers \ WithheldHeaders :
               h \in DOMAIN q.response.headers /\ q.response.headers[h] = q.out.headers[h]

\* C13's case: an upstream answer with a cookie and a policy was fetched by
\* one request and served from the cache to another.
C13_Witness ==
  \E r1, r2 \in RequestIds :
    /\ ServedFresh(reqs[r1])
    /\ ServedFromCache(reqs[r2])
    /\ \A r \in {r1, r2} :
         /\ {"set-cookie", "content-security-policy"} \subseteq DOMAIN reqs[r].out.headers
         /\ "content-type" \in DOMAIN reqs[r].response.headers

\* C14: of two calls for the same allow-listed URL made within one
\* time to live, the first of them cached, only the first makes an outbound
\* request, and the second is answered as the first was.
C14_OneOutboundCallPerWindow ==
  \A r1, r2 \in RequestIds :
    (/\ r1 < r2
     /\ now <= stdTTL
     /\ reqs[r1].pc = "done" /\ Did(reqs[r1], "cache.set")
     /\ reqs[r2].pc # "idle" /\ reqs[r2].url = reqs[r1].url) =>
      /\ ~Did(reqs[r2], "request")
      /\ reqs[r2].pc = "done" => reqs[r2].response = reqs[r1].response

\* The headers say the response is an image or carries a max-age.
ImageOrMaxAge(headers) ==
  \/ Includes(HeaderOrEmpty(headers, "content-type"), "image")
  \/ Includes(HeaderOrEmpty(headers, "cache-control"), "max-age")

C16_ExpiredEntryNeverServed ==
  /\ \A r \in RequestIds :
       LET q == reqs[r]
           ck == CacheKey(q.url)
       IN  /\ q.found = "expired" => Did(q, "request")
           /\ ServedFromCache(q) => q.found = "fresh"
           /\ (Did(q, "cache.set") /\ ck \in DOMAIN cache) => cache[ck].at >= q.setAt
  /\ \A k \in DOMAIN cache : cache[k].at <= now /\ cache[k].t = cache[k].at + stdTTL

\* C16's case: a request met an expired entry, fetched, and inserted the
\* entry that is in the cache now.
C16_Witness ==
  \E r \in RequestIds :
    LET q == reqs[r]
        ck == CacheKey(q.url)
    IN  /\ q.pc = "done"
        /\ q.found = "expired"
        /\ Did(q, "cache.set")
        /\ ck \in DOMAIN cache
        /\ cache[ck].at = q.setAt
        /\ q.setAt > stdTTL

\* C17: an entry that has not expired stays in the cache as it is: no step
\* removes it, replaces its value or changes its times.
C17_CacheEntryImmutable ==
  [][\A k \in DOMAIN cache :
       ~(cache[k].at + stdTTL < now) => (k \in DOMAIN cache' /\ cache'[k] = cache[k])]_vars

\* C22: once the client of a /fetch request has gone away while the
\* upstream was awaited, the handling stops: no upstream answer is read for
\* the request, it inserts nothing into the cache and nothing is sent for it.
C22_DisconnectStopsHandling ==
  \A r \in RequestIds :
    LET q == reqs[r]
    IN  q.gone => /\ q.out = NoOut
                  /\ ~Did(q, "cache.set")
                  /\ q.response = NoResponse

\* -------------------------------------------------------- rewriter: claims

\* The places of the text that hold an absolute reference, http or https, to
\* the origin's prefixed path.
PrefixedRefs(t) == {i \in DOMAIN t : t[i] \in {ORIGIN_REF, HTTP_ORIGIN_REF}}

\* How many tokens of the text are the proxy prefix.
PrefixCount(t) == Cardinality({i \in DOMAIN t : t[i] = PROXY_PREFIX})

\* C18: for every text that holds an absolute reference to the origin's
\* prefixed path, what rewriteText of index.js and of part_002 returns holds
\* the hostname orteil.dashnet.org nowhere, and holds the proxy prefix for
\* each such reference.
C18_NoOriginHostAfterRewrite ==
  (file \in {"index.js", "part_002"} /\ rw.outputs # <<>> /\ PrefixedRefs(rw.input) # {}) =>
    /\ \A i \in DOMAIN rw.outputs[1] : ~HoldsOriginHost(rw.outputs[1][i])
    /\ PrefixCount(rw.outputs[1]) >= Cardinality(PrefixedRefs(rw.input))

\* C19: applying a Content Rewriter to its own output changes nothing:
\* rewrite(rewrite(t)) = rewrite(t) for every text t.
C19_RewriterIdempotent ==
  Len(rw.outputs) >= 2 => rw.outputs[2] = rw.outputs[1]

\* Whether the token is a protocol-relative reference, bare or in a src
\* attribute.
ProtocolRelative(t) == t \in {RELATIVE_ORIGIN_REF, SRC_RELATIVE}

\* How many tokens of the text are in the set.
CountIn(t, S) == Cardinality({i \in DOMAIN t : t[i] \in S})

\* C23: in what a Content Rewriter with an integrity-stripping step returns,
\* no protocol-relative reference of the text is left as it was, and each
\* one in a src attribute has become a reference to the /fetch endpoint.
C23_ProtocolRelativeRouted ==
  (file # "part_000" /\ rw.outputs # <<>>) =>
    /\ \A i \in DOMAIN rw.outputs[1] : ~ProtocolRelative(rw.outputs[1][i])
    /\ CountIn(rw.outputs[1], {FETCH_SRC}) = CountIn(rw.input, {SRC_RELATIVE})

\* The script the deployed file injects.
ScriptOf(f) ==
  CASE f = "index.js" -> safetyScript
    [] f = "part_001" -> injection
    [] f = "part_002" -> safeScript
    [] OTHER -> ""

\* C24: when the text holds a closing head tag, in whatever letter case,
\* what the Content Rewriter returns holds the script once, immediately
\* before the first closing head tag; when the text holds none, it holds no
\* script.
C24_ScriptOnceBeforeFirstHeadEnd ==
  (file # "part_000" /\ rw.outputs # <<>>) =>
    LET out == rw.outputs[1]
        places == {i \in DOMAIN out : out[i] = ScriptOf(file)}
    IN  IF \E i \in DOMAIN rw.input : MatchesHeadEnd(rw.input[i])
        THEN \E k \in DOMAIN out :
               /\ places = {k}
               /\ k + 1 \in DOMAIN out
               /\ MatchesHeadEnd(out[k + 1])
               /\ \A j \in 1..(k - 1) : ~MatchesHeadEnd(out[j])
        ELSE places = {}

\* ------------------------------------------- rewriter and gateway: claims

\* The URL a reference to the /fetch endpoint names, as the gateway's
\* framework hands it over.
NamedUrl(t) == queryDecode(urlParameter(t))

\* C25: every reference to the /fetch endpoint in what the Content Rewriter
\* returns names a host of the gateway's allow-list, and no request for such
\* a reference is answered 403.
C25_EmittedReferencesAllowListed ==
  /\ rw.outputs # <<>> =>
       \A i \in DOMAIN rw.outputs[1] :
         IsFetchReference(rw.outputs[1][i]) =>
           hostname(NamedUrl(rw.outputs[1][i])) \in ALLOWED_HOSTS
  /\ \A r \in RequestIds : reqs[r].response.status # 403

\* C26: a request for the reference the Content Rewriter made of an absolute
\* URL u of an auxiliary host reaches backendFetch, and with exactly u: the
\* gateway validates and fetches the URL that stood in the page.
C26_RoundTripFetchesSameUrl ==
  \A r \in RequestIds :
    LET q == reqs[r]
    IN  (q.pc # "idle" /\ q.raw \in CdnUrls) =>
          /\ \E i \in DOMAIN rw.input : rw.input[i] = q.raw
          /\ q.pc \in {"awaiting", "done"}
          /\ Did(q, "cache.get")
          /\ q.url = q.raw

\* ------------------------------------------------ rewriter in the proxy: claims

\* The Content Rewriter has run on the response.
Rewritten == \E i \in DOMAIN steps : steps[i] = "rewrite"

\* C20: when nothing fails, the Content Rewriter runs on a response exactly
\* when the response is not relayed as a challenge and its content-type is
\* HTML, JavaScript, CSS, JSON or plain text; a response of any other
\* content-type reaches the client with the raw upstream body.
C20_RewrittenIffTextualNonChallenge ==
  (pc = "done" /\ fault = "none") =>
    /\ Rewritten <=> (path # "challenge" /\ isTextual(ctypeOf(origin.headers)))
    /\ ~isTextual(ctypeOf(origin.headers)) => res.body = origin.body

\* C21: a response written on the rewritten-text path has the upstream's
\* status and every upstream header other than content-length,
\* content-security-policy, x-frame-options and content-encoding with the
\* upstream's value; its content-encoding names the compression of the body
\* that is written, and is absent (or says identity) when the body is not
\* compressed.
C21_TextResponseFrame ==
  TextWritten =>
    /\ res.statusCode = origin.statusCode
    /\ \A h \in DOMAIN origin.headers \ {"content-length", CSP, XFO, "content-encoding"} :
         h \in DOMAIN res.headers /\ res.headers[h] = origin.headers[h]
    /\ LET ce == toLowerCase(HeaderOrEmpty(res.headers, "content-encoding"))
       IN  IF \E alg \in Compressions : CanDecompress(alg, res.body)
           THEN ce \in Compressions /\ CanDecompress(ce, res.body)
           ELSE ce \in {"", "identity"}

\* The upstream's body stream has not failed.
StreamIntact == fault # "stream"

\* C27: while the upstream's body stream does not fail, the handler either
\* has a step left to take or has finished with the client response ended
\* exactly once, on the challenge, text, binary, pipe and fallback paths
\* alike; the response is never ended twice, and once it is ended no header
\* and no status is set on it.
C27_ResponseEndedExactlyOnce ==
  /\ [](/\ res.ends <= 1
        /\ res.ended <=> res.ends = 1
        /\ pc = "done" => res.ends = 1
        /\ (StreamIntact /\ pc # "done") => ENABLED Next)
  /\ [][res.ended => /\ res'.ended
                     /\ res'.headers = res.headers
                     /\ res'.statusCode = res.statusCode]_vars

\* C27's case: an error after the body was read, and the response ended
\* once by the fallback.
C27_Witness ==
  /\ pc = "done"
  /\ path = "fallback"
  /\ fault \in {"toString", "setHeader"}
  /\ res.ends = 1

=============================================================================
